---- MODULE Spec2Model ----
(***************************************************************************)
(* A model of the file picker of nguyendhst/copyfile: the bubbletea model  *)
(* of filepicker/filepicker.go (Model.Update, readDir, DidSelectFile) and  *)
(* the wrapper of main.go (model.Update) that drives it.                   *)
(*                                                                         *)
(* A path is a sequence of names whose first element is the root "/"; the  *)
(* empty sequence is the empty string "".  A name is a string; Chars maps  *)
(* it to its bytes so that name order and suffixes are computed, not       *)
(* assumed.                                                                *)
(***************************************************************************)
EXTENDS Integers, Sequences, FiniteSets, Bags, TLC

\* ------------------------------------------------------------- bounds

\* The largest height a caller or a window gives the picker.
MaxHeight == 2
\* The input events (key presses and resizes) of a session that are
\* followed.
MaxEvents == 5

\* ------------------------------------------------- program constants

marginBottom == 5

\* ------------------------------------------------------------ strings

\* Byte order of the characters the names use ('.' < '/' < letters).
Alphabet ==
    <<".", "/", "a", "b", "c", "d", "e", "f", "g", "h", "i", "j", "k", "l",
      "m", "n", "o", "p", "q", "r", "s", "t", "u", "v", "w", "x", "y", "z">>

Ord(c) == CHOOSE i \in 1..Len(Alphabet) : Alphabet[i] = c

Chars(s) ==
    CASE s = "/"           -> <<"/">>
      [] s = ".md"         -> <<".", "m", "d">>
      [] s = ".cache"      -> <<".", "c", "a", "c", "h", "e">>
      [] s = "home"        -> <<"h", "o", "m", "e">>
      [] s = "docs"        -> <<"d", "o", "c", "s">>
      [] s = "lib"         -> <<"l", "i", "b">>
      [] s = "tmp"         -> <<"t", "m", "p">>
      [] s = "etc"         -> <<"e", "t", "c">>
      [] s = "link"        -> <<"l", "i", "n", "k">>
      [] s = "about.md"    -> <<"a", "b", "o", "u", "t", ".", "m", "d">>
      [] s = "dangling.md" -> <<"d", "a", "n", "g", "l", "i", "n", "g", ".", "m", "d">>
      [] s = "gone.md"     -> <<"g", "o", "n", "e", ".", "m", "d">>
      [] s = "readme.md"   -> <<"r", "e", "a", "d", "m", "e", ".", "m", "d">>
      [] s = "readme.txt"  -> <<"r", "e", "a", "d", "m", "e", ".", "t", "x", "t">>

\* Go's < on strings: bytewise lexicographic order.
StrLess(a, b) ==
    \/ /\ Len(a) < Len(b)
       /\ \A i \in 1..Len(a) : a[i] = b[i]
    \/ \E k \in 1..Len(a) :
          /\ k <= Len(b)
          /\ \A i \in 1..(k - 1) : a[i] = b[i]
          /\ Ord(a[k]) < Ord(b[k])

\* strings.HasSuffix on byte sequences.
HasSuffix(s, suffix) ==
    /\ Len(suffix) <= Len(s)
    /\ \A i \in 1..Len(suffix) : s[Len(s) - Len(suffix) + i] = suffix[i]

\* strings.HasPrefix(name, "."): the hidden-file convention.
IsHidden(name) == Chars(name)[1] = "."

\* ------------------------------------------------------------- paths

Root == <<"/">>
NoPath == <<>>

\* The bytes of a path: "" for NoPath, "/" for the root, "/a/b" below it.
RECURSIVE PathChars(_)
PathChars(p) ==
    IF Len(p) = 0 THEN <<>>
    ELSE IF Len(p) = 1 THEN Chars(p[1])
    ELSE IF Len(p) = 2 THEN Chars(p[1]) \o Chars(p[2])
    ELSE PathChars(SubSeq(p, 1, Len(p) - 1)) \o <<"/">> \o Chars(p[Len(p)])

\* filepath.Join(dir, name) for a clean absolute dir and a plain name.
Join(dir, name) == Append(dir, name)

\* filepath.Dir: the parent; the root is its own parent.
Dir(p) == IF Len(p) <= 1 THEN p ELSE SubSeq(p, 1, Len(p) - 1)

\* -------------------------------------------------------- file system

\* One directory child as the file system holds it.  kind is the type
\* lstat reports; target is where a symlink points (NoPath: dangling);
\* gone marks a child removed after the directory was read, whose lstat
\* fails.
Ent(name, kind, target, gone) ==
    [name |-> name, kind |-> kind, target |-> target, gone |-> gone]

Home == <<"/", "home">>
Docs == <<"/", "home", "docs">>
Etc == <<"/", "home", "docs", "etc">>
Lib == <<"/", "home", "lib">>
Tmp == <<"/", "home", "tmp">>

\* The directories of the file system and their children, in the order
\* os.ReadDir returns them (by file name).
FS(d) ==
    CASE d = Root -> << Ent("home", "dir", NoPath, FALSE) >>
      [] d = Home ->
            << Ent(".cache", "file", NoPath, FALSE),
               Ent("docs", "dir", NoPath, FALSE),
               Ent("lib", "dir", NoPath, FALSE),
               Ent("readme.md", "file", NoPath, FALSE),
               Ent("readme.txt", "file", NoPath, FALSE),
               Ent("tmp", "dir", NoPath, FALSE) >>
      [] d = Docs ->
            << Ent("dangling.md", "symlink", NoPath, FALSE),
               Ent("etc", "dir", NoPath, FALSE),
               Ent("gone.md", "file", NoPath, TRUE) >>
      [] d = Etc -> << >>
      [] d = Lib -> << >>
      [] d = Tmp ->
            << Ent("about.md", "file", NoPath, FALSE),
               Ent("link", "symlink", Docs, FALSE) >>

Dirs == { Root, Home, Docs, Etc, Lib, Tmp }

\* Directories whose read is denied.
Unreadable == { Lib }

\* The child of directory d called name, as a set (empty: no such child).
Child(d, name) ==
    IF d \in Dirs
    THEN { FS(d)[i] : i \in { j \in 1..Len(FS(d)) : FS(d)[j].name = name } }
    ELSE {}

\* filepath.EvalSymlinks: the path with every symlink followed, NoPath
\* (the "" returned beside an error) when a component is missing.
RECURSIVE EvalFrom(_, _)
EvalFrom(cur, rest) ==
    IF Len(rest) = 0 THEN cur
    ELSE LET c == Child(cur, rest[1]) IN
         IF c = {} THEN NoPath
         ELSE LET e == CHOOSE x \in c : TRUE IN
              IF e.gone THEN NoPath
              ELSE IF e.kind = "dir" THEN EvalFrom(Join(cur, e.name), Tail(rest))
              ELSE IF e.kind = "symlink"
                   THEN IF e.target = NoPath THEN NoPath
                        ELSE EvalFrom(e.target, Tail(rest))
              ELSE IF Len(rest) = 1 THEN Join(cur, e.name) ELSE NoPath

EvalSymlinks(p) == IF Len(p) = 0 THEN NoPath ELSE EvalFrom(Root, Tail(p))

\* os.Stat of an already resolved path: "err", "dir" or "file".
Stat(p) ==
    IF p = NoPath THEN "err"
    ELSE IF p \in Dirs THEN "dir"
    ELSE "file"

\* ------------------------------------------------------------ readDir

IsDir(e) == e.kind = "dir"

\* Less comparing the names only.
Less_ByName(x, y) == StrLess(Chars(x.name), Chars(y.name))

\* The less function readDir hands to sort.Slice.
Less(x, y) ==
    IF IsDir(x) = IsDir(y)
    THEN StrLess(Chars(x.name), Chars(y.name))
    ELSE IsDir(x)

\* sort.Slice: the entries ordered by Less (names in a directory differ,
\* so the order is unique).
RECURSIVE SortSlice(_)
SortSlice(s) ==
    IF Len(s) = 0 THEN << >>
    ELSE LET i == CHOOSE k \in 1..Len(s) :
                     \A j \in 1..Len(s) : j # k => ~Less(s[j], s[k])
         IN  <<s[i]>> \o SortSlice(SubSeq(s, 1, i - 1) \o SubSeq(s, i + 1, Len(s)))

\* The loop that drops hidden entries.
RECURSIVE Sanitize(_)
Sanitize(s) ==
    IF Len(s) = 0 THEN << >>
    ELSE IF IsHidden(Head(s).name) THEN Sanitize(Tail(s))
    ELSE <<Head(s)>> \o Sanitize(Tail(s))

errorMsg == [type |-> "errorMsg", key |-> ""]
readDirMsg(entries) == [type |-> "readDirMsg", key |-> "", entries |-> entries]

\* readDir after a successful os.ReadDir that returned dirEntries: the
\* sort, then the hidden filter unless showHidden.
ReadDirResult(dirEntries, showHidden) ==
    LET sorted == SortSlice(dirEntries) IN
    IF showHidden THEN readDirMsg(sorted)
    ELSE readDirMsg(Sanitize(sorted))

\* What the command returned by readDir(path, showHidden) produces when run.
readDir(path, showHidden) ==
    LET real == EvalSymlinks(path) IN
    IF Stat(real) # "dir" \/ real \in Unreadable THEN errorMsg
    ELSE ReadDirResult(FS(real), showHidden)

\* ------------------------------------------------------------- stacks

\* newStack's closures over one slice.
Push(stack, i) == Append(stack, i)
Top(stack) == stack[Len(stack)]
Pop(stack) == SubSeq(stack, 1, Len(stack) - 1)

pushView(m) ==
    [m EXCEPT !.minStack = Push(m.minStack, m.min),
              !.maxStack = Push(m.maxStack, m.max),
              !.selectedStack = Push(m.selectedStack, m.selected)]

popView(m) ==
    [m EXCEPT !.selected = Top(m.selectedStack),
              !.min = Top(m.minStack),
              !.max = Top(m.maxStack),
              !.selectedStack = Pop(m.selectedStack),
              !.minStack = Pop(m.minStack),
              !.maxStack = Pop(m.maxStack)]

\* ------------------------------------------------------- Model.Update

\* What Update returns: the model and the command ("nil", "readDir",
\* "quit"), or "panic" when an index is out of range, the model untouched.
Ret(m, cmd) == [m |-> m, cmd |-> cmd]

\* m.files[i] with Go's 0-based index.
InRange(m, i) == 0 <= i /\ i < Len(m.files)
At(m, i) == m.files[i + 1]

OnReadDirMsg(m, entries) ==
    Ret([m EXCEPT !.files = entries, !.max = m.Height - 1], "nil")

OnWindowSizeMsg(m, height) ==
    LET h == IF m.AutoHeight THEN height - marginBottom ELSE m.Height IN
    Ret([m EXCEPT !.Height = h, !.max = h - 1], "nil")

GoToTop(m) ==
    Ret([m EXCEPT !.selected = 0, !.min = 0, !.max = m.Height - 1], "nil")

GoToLast(m) ==
    Ret([m EXCEPT !.selected = Len(m.files) - 1,
                  !.min = Len(m.files) - m.Height,
                  !.max = Len(m.files) - 1], "nil")

\* The tail shared by Down and Up: read the highlighted entry and show
\* its path.  old is the model as Update received it.
ShowPath(old, m) ==
    IF ~InRange(m, m.selected) THEN Ret(old, "panic")
    ELSE LET f == At(m, m.selected) IN
         IF f.gone THEN Ret(m, "nil")
         ELSE IF IsDir(f) THEN Ret([m EXCEPT !.PathUI = m.CurrentDirectory], "nil")
         ELSE IF m.FileAllowed
              THEN Ret([m EXCEPT !.PathUI = Join(m.CurrentDirectory, f.name)], "nil")
         ELSE Ret(m, "nil")

\* DownView jumping a whole window when the cursor leaves it.
DownView_Jump(m) ==
    LET s1 == m.selected + 1
        s2 == IF s1 >= Len(m.files) THEN Len(m.files) - 1 ELSE s1
    IN  IF s2 > m.max
        THEN [m EXCEPT !.selected = s2, !.min = s2, !.max = s2 + m.Height - 1]
        ELSE [m EXCEPT !.selected = s2]

DownView(m) ==
    LET s1 == m.selected + 1
        s2 == IF s1 >= Len(m.files) THEN Len(m.files) - 1 ELSE s1
    IN  IF s2 > m.max
        THEN [m EXCEPT !.selected = s2, !.min = m.min + 1, !.max = m.max + 1]
        ELSE [m EXCEPT !.selected = s2]

Down(m) == ShowPath(m, DownView(m))

UpView(m) ==
    LET s1 == m.selected - 1
        s2 == IF s1 < 0 THEN 0 ELSE s1
    IN  IF s2 < m.min
        THEN [m EXCEPT !.selected = s2, !.min = m.min - 1, !.max = m.max - 1]
        ELSE [m EXCEPT !.selected = s2]

Up(m) == ShowPath(m, UpView(m))

PageDown(m) ==
    LET s1 == m.selected + m.Height
        s2 == IF s1 >= Len(m.files) THEN Len(m.files) - 1 ELSE s1
        mn == m.min + m.Height
        mx == m.max + m.Height
    IN  IF mx >= Len(m.files)
        THEN Ret([m EXCEPT !.selected = s2,
                           !.max = Len(m.files) - 1,
                           !.min = Len(m.files) - 1 - m.Height], "nil")
        ELSE Ret([m EXCEPT !.selected = s2, !.min = mn, !.max = mx], "nil")

PageUp(m) ==
    LET s1 == m.selected - m.Height
        s2 == IF s1 < 0 THEN 0 ELSE s1
        mn == m.min - m.Height
        mx == m.max - m.Height
    IN  IF mn < 0
        THEN Ret([m EXCEPT !.selected = s2, !.min = 0, !.max = m.Height], "nil")
        ELSE Ret([m EXCEPT !.selected = s2, !.min = mn, !.max = mx], "nil")

\* BackView without the else branch of lines 382-386: with no descent
\* recorded the view is left as it was.
BackView_NoReset(m) ==
    IF Len(m.selectedStack) > 0 THEN popView(m) ELSE m

\* The view Back restores: the one popped, or the initial one when no
\* descent is recorded.
BackView(m) ==
    IF Len(m.selectedStack) > 0
    THEN popView(m)
    ELSE [m EXCEPT !.selected = 0, !.min = 0, !.max = m.Height - 1]

\* BackDirectory without filepath.Dir: Back stays in the directory.
BackDirectory_Stay(m) == m.CurrentDirectory

\* The directory Back moves to.
BackDirectory(m) == Dir(m.CurrentDirectory)

Back(m) ==
    Ret(BackView([m EXCEPT !.CurrentDirectory = BackDirectory(m),
                           !.PathUI = BackDirectory(m)]), "readDir")

\* EffectiveType without the symlink branch: the nominal type of f only.
EffectiveType_Nominal(m, f) ==
    IF IsDir(f) THEN "dir" ELSE "file"

\* isDir as Open and didSelectFile compute it for entry f: "dir", "file",
\* or "err" when f is a symlink and os.Stat of its resolution fails.
EffectiveType(m, f) ==
    IF f.kind = "symlink"
    THEN LET st == Stat(EvalSymlinks(Join(m.CurrentDirectory, f.name))) IN
         IF st = "err" THEN "err"
         ELSE IF IsDir(f) \/ st = "dir" THEN "dir" ELSE "file"
    ELSE IF IsDir(f) THEN "dir" ELSE "file"

\* The condition under which Open takes the key press as a selection.
Chooseable(m, type) ==
    \/ type = "file" /\ m.FileAllowed
    \/ type = "dir" /\ m.DirAllowed

\* Open's descent into the highlighted entry f.
Descend(m, f) ==
    LET m1 == [m EXCEPT !.CurrentDirectory = Join(m.CurrentDirectory, f.name),
                        !.PathUI = Join(m.CurrentDirectory, f.name)]
        m2 == pushView(m1)
    IN  Ret([m2 EXCEPT !.selected = 0, !.min = 0, !.max = m.Height - 1], "readDir")

\* Open whose selection branch sets Path but returns no tea.Quit.
Open_NoQuit(m, isSelect) ==
    IF Len(m.files) = 0 THEN Ret(m, "nil")
    ELSE IF ~InRange(m, m.selected) THEN Ret(m, "panic")
    ELSE LET f == At(m, m.selected) IN
         IF f.gone THEN Ret(m, "nil")
         ELSE LET type == EffectiveType(m, f) IN
              IF type = "err" THEN Ret(m, "nil")
              ELSE IF Chooseable(m, type) /\ isSelect
                   THEN Ret([m EXCEPT !.Path = Join(m.CurrentDirectory, f.name)], "nil")
              ELSE IF type # "dir" THEN Ret(m, "nil")
              ELSE Descend(m, f)

\* isSelect: the key also matches KeyMap.Select.
Open(m, isSelect) ==
    IF Len(m.files) = 0 THEN Ret(m, "nil")
    ELSE IF ~InRange(m, m.selected) THEN Ret(m, "panic")
    ELSE LET f == At(m, m.selected) IN
         IF f.gone THEN Ret(m, "nil")
         ELSE LET type == EffectiveType(m, f) IN
              IF type = "err" THEN Ret(m, "nil")
              ELSE IF Chooseable(m, type) /\ isSelect
                   THEN Ret([m EXCEPT !.Path = Join(m.CurrentDirectory, f.name)], "quit")
              ELSE IF type # "dir" THEN Ret(m, "nil")
              ELSE Descend(m, f)

\* The keys of DefaultKeyMap.
KeyMap ==
    [GoToTop  |-> {"g"},
     GoToLast |-> {"G"},
     Down     |-> {"j", "down", "ctrl+n"},
     Up       |-> {"k", "up", "ctrl+p"},
     PageUp   |-> {"K", "pgup"},
     PageDown |-> {"J", "pgdown"},
     Back     |-> {"h", "backspace", "left", "esc"},
     Open     |-> {"l", "right", "enter"},
     Select   |-> {"enter"},
     Quit     |-> {"q", "ctrl+c"}]

KeyMsg(k) == [type |-> "KeyMsg", key |-> k]
WindowSizeMsg(h) == [type |-> "WindowSizeMsg", key |-> "", Height |-> h]

Matches(msg, binding) == msg.key \in KeyMap[binding]

Update(m, msg) ==
    CASE msg.type = "readDirMsg" -> OnReadDirMsg(m, msg.entries)
      [] msg.type = "WindowSizeMsg" -> OnWindowSizeMsg(m, msg.Height)
      [] msg.type = "KeyMsg" ->
            CASE Matches(msg, "GoToTop") -> GoToTop(m)
              [] Matches(msg, "GoToLast") -> GoToLast(m)
              [] Matches(msg, "Down") -> Down(m)
              [] Matches(msg, "Up") -> Up(m)
              [] Matches(msg, "PageDown") -> PageDown(m)
              [] Matches(msg, "PageUp") -> PageUp(m)
              [] Matches(msg, "Back") -> Back(m)
              [] Matches(msg, "Open") -> Open(m, Matches(msg, "Select"))
              [] OTHER -> Ret(m, "nil")
      [] OTHER -> Ret(m, "nil")

\* ---------------------------------------------------------- selection

canSelect(m, file) ==
    IF Len(m.AllowedTypes) <= 0 THEN TRUE
    ELSE \E i \in 1..Len(m.AllowedTypes) :
            HasSuffix(PathChars(file), Chars(m.AllowedTypes[i]))

\* What didSelectFile returns; panic: it indexed outside m.files.
Did(ok, path) == [ok |-> ok, path |-> path, panic |-> FALSE]
DidPanic == [ok |-> FALSE, path |-> NoPath, panic |-> TRUE]

didSelectFile(m, msg) ==
    IF Len(m.files) = 0 THEN Did(FALSE, NoPath)
    ELSE IF msg.type # "KeyMsg" THEN Did(FALSE, NoPath)
    ELSE IF ~Matches(msg, "Select") THEN Did(FALSE, NoPath)
    ELSE IF ~InRange(m, m.selected) THEN DidPanic
    ELSE LET f == At(m, m.selected) IN
         IF f.gone THEN Did(FALSE, NoPath)
         ELSE LET type == EffectiveType(m, f) IN
              IF type = "err" THEN Did(FALSE, NoPath)
              ELSE IF \/ type = "file" /\ m.FileAllowed
                      \/ type = "dir" /\ m.DirAllowed /\ m.Path # NoPath
                   THEN Did(TRUE, m.Path)
              ELSE Did(FALSE, NoPath)

DidSelectFile(m, msg) ==
    LET d == didSelectFile(m, msg) IN
    IF d.panic THEN d
    ELSE IF d.ok /\ canSelect(m, d.path) THEN Did(TRUE, d.path)
    ELSE Did(FALSE, NoPath)

\* -------------------------------------------------------------- state

VARIABLES
    fp,            \* main's model.filepicker: the filepicker.Model
    selectedFile,  \* main's model.selectedFile
    quitting,      \* main's model.quitting
    inflight,      \* the directories of the readDir commands not yet delivered
    status,        \* "running", "quit" (tea.Quit was returned) or "panic"
    msg,           \* the type and key of the message the last Update received
    didSelect,     \* what DidSelectFile returned in the last Update
    listedDir,     \* the directory fp.files was read from
    sym,           \* the run of descents and ascents in progress
    events         \* the input events handled so far

vars ==
    <<fp, selectedFile, quitting, inflight, status, msg, didSelect, listedDir,
      sym, events>>

\* A caller's configuration: New (AutoHeight, height 0 until the first
\* WindowSizeMsg) or NewWithConfig(height, ...), and the exported
\* selection fields set after it.
Config(types, fileAllowed, dirAllowed, autoHeight) ==
    [AllowedTypes |-> types, FileAllowed |-> fileAllowed,
     DirAllowed |-> dirAllowed, AutoHeight |-> autoHeight,
     Height |-> IF autoHeight THEN 0 ELSE MaxHeight]

\* The configurations followed while browsing: main's own (any file, no
\* directory), an extension filter, the filter with directories allowed,
\* and directories only.
Configs ==
    { Config(<< >>, TRUE, FALSE, FALSE), Config(<<".md">>, TRUE, FALSE, FALSE),
      Config(<<".md">>, TRUE, TRUE, FALSE), Config(<< >>, FALSE, TRUE, FALSE) }

\* The view is also followed with the height taken from the window.
ViewConfigs == Configs \cup { Config(<< >>, TRUE, FALSE, TRUE) }

\* New / NewWithConfig with the caller's configuration c.
NewModel(c, d) ==
    [Path |-> NoPath, PathUI |-> d, CurrentDirectory |-> d,
     AllowedTypes |-> c.AllowedTypes, files |-> << >>, ShowHidden |-> FALSE,
     DirAllowed |-> c.DirAllowed, FileAllowed |-> c.FileAllowed,
     selected |-> 0, selectedStack |-> << >>,
     min |-> 0, max |-> 0, maxStack |-> << >>, minStack |-> << >>,
     Height |-> c.Height, AutoHeight |-> c.AutoHeight]

View(m) == <<m.selected, m.min, m.max>>

Idle == [n |-> 0, up |-> FALSE, base |-> <<0, 0, 0>>]

\* The listing shown is the one of the current directory and no read is
\* in flight.
Settled == inflight = EmptyBag /\ listedDir = fp.CurrentDirectory

\* sym after message, which Update answered with r: n counts the descents
\* not yet undone of a run of descents followed by ascents, each taken
\* with its listing delivered; base is the view before the first descent;
\* up says that the ascents have begun.
SymNext(message, r) ==
    IF message.type = "readDirMsg" THEN sym
    ELSE IF message.type # "KeyMsg" \/ ~Settled THEN Idle
    ELSE IF Matches(message, "Open") /\ r.cmd = "readDir"
         THEN IF sym.n > 0 /\ ~sym.up
              THEN [sym EXCEPT !.n = @ + 1]
              ELSE [n |-> 1, up |-> FALSE, base |-> View(fp)]
    ELSE IF Matches(message, "Back") /\ sym.n > 0
         THEN [sym EXCEPT !.n = @ - 1, !.up = TRUE]
    ELSE Idle

\* The state after construction in directory d: Init has issued the
\* first readDir.
InitIn(d, configs) ==
    /\ \E c \in configs : fp = NewModel(c, d)
    /\ selectedFile = NoPath
    /\ quitting = FALSE
    /\ inflight = SetToBag({d})
    /\ status = "running"
    /\ msg = [type |-> "none", key |-> ""]
    /\ didSelect = Did(FALSE, NoPath)
    /\ listedDir = NoPath
    /\ sym = Idle
    /\ events = 0

Init == InitIn(Home, Configs)

\* The session may also start in a directory with few or no entries.
InitView == \E d \in {Home, Tmp, Etc} : InitIn(d, ViewConfigs)

\* The commands in flight after a message: done is the directory of the
\* readDir command that produced the message (NoPath: an input event),
\* r what Update returned.
InflightNext(done, r) ==
    LET rest == IF done = NoPath THEN inflight ELSE inflight (-) SetToBag({done})
    IN  IF r.cmd = "readDir"
        THEN rest (+) SetToBag({r.m.CurrentDirectory})
        ELSE rest

\* main's model.Update on a message that is not a quit key: the picker's
\* Update, then DidSelectFile on the model it returned.
Handle(message, done) ==
    /\ status = "running"
    /\ done = NoPath => events < MaxEvents
    /\ events' = IF done = NoPath THEN events + 1 ELSE events
    /\ \E r \in {Update(fp, message)} : \E d \in {DidSelectFile(r.m, message)} :
           IF r.cmd = "panic" \/ d.panic
           THEN /\ status' = "panic"
                /\ msg' = [type |-> message.type, key |-> message.key]
                /\ UNCHANGED <<fp, selectedFile, quitting, inflight, didSelect,
                               listedDir, sym>>
           ELSE /\ fp' = r.m
                /\ selectedFile' = IF d.ok THEN d.path ELSE selectedFile
                /\ didSelect' = d
                /\ inflight' = InflightNext(done, r)
                /\ status' = IF r.cmd = "quit" THEN "quit" ELSE "running"
                /\ msg' = [type |-> message.type, key |-> message.key]
                /\ sym' = SymNext(message, r)
                /\ listedDir' = IF message.type = "readDirMsg" THEN done ELSE listedDir
                /\ UNCHANGED quitting

PressGoToTop == Handle(KeyMsg("g"), NoPath)
PressGoToLast == Handle(KeyMsg("G"), NoPath)
PressDown == Handle(KeyMsg("j"), NoPath)
PressUp == Handle(KeyMsg("k"), NoPath)
PressPageDown == Handle(KeyMsg("J"), NoPath)
PressPageUp == Handle(KeyMsg("K"), NoPath)
PressBack == Handle(KeyMsg("h"), NoPath)
PressOpen == Handle(KeyMsg("l"), NoPath)
PressEnter == Handle(KeyMsg("enter"), NoPath)

WindowHeights == { marginBottom + k : k \in 1..MaxHeight }

Resize == \E h \in WindowHeights : Handle(WindowSizeMsg(h), NoPath)

\* The keys main's model.Update takes as quit.
QuitKeys == {"q", "ctrl+c"}

\* main's model.Update on "q" or "ctrl+c".
PressQuit ==
    /\ status = "running"
    /\ events < MaxEvents
    /\ events' = events + 1
    /\ quitting' = TRUE
    /\ status' = "quit"
    /\ \E k \in QuitKeys : msg' = [type |-> "KeyMsg", key |-> k]
    /\ UNCHANGED <<fp, selectedFile, inflight, didSelect, listedDir, sym>>

\* A readDir command in flight finishes and its message reaches Update.
DeliverListing ==
    \E p \in BagToSet(inflight) : \E message \in {readDir(p, fp.ShowHidden)} :
        /\ message.type = "readDirMsg"
        /\ Handle(message, p)

DeliverError ==
    \E p \in BagToSet(inflight) : \E message \in {readDir(p, fp.ShowHidden)} :
        /\ message.type = "errorMsg"
        /\ Handle(message, p)

\* Browsing: line movement, navigation, selection, quit and the
\* delivery of the listings.
Next ==
    \/ PressDown
    \/ PressUp
    \/ PressBack
    \/ PressOpen
    \/ PressEnter
    \/ PressQuit
    \/ DeliverListing
    \/ DeliverError

Spec == Init /\ [][Next]_vars

\* The view inside one directory, once its listing is loaded: every
\* movement key and the resize.
Loaded == listedDir # NoPath

NextView ==
    \/ DeliverListing
    \/ Loaded /\ PressGoToTop
    \/ Loaded /\ PressGoToLast
    \/ Loaded /\ PressDown
    \/ Loaded /\ PressUp
    \/ Loaded /\ PressPageDown
    \/ Loaded /\ PressPageUp
    \/ Loaded /\ Resize

SpecView == InitView /\ [][NextView]_vars

\* The lister on any directory content.  os.ReadDir returns the children
\* sorted by file name; PoolNames are the names a directory may hold, in
\* that order, and each may be absent, a directory or a regular file.
MaxChildren == 3

PoolNames == <<".cache", "about.md", "docs", "readme.md", "tmp">>

RECURSIVE DirEntries(_, _)
DirEntries(kinds, i) ==
    IF i > Len(PoolNames) THEN << >>
    ELSE IF kinds[i] = "none" THEN DirEntries(kinds, i + 1)
    ELSE <<Ent(PoolNames[i], kinds[i], NoPath, FALSE)>> \o DirEntries(kinds, i + 1)

Contents ==
    { DirEntries(kinds, 1) :
        kinds \in { k \in [1..Len(PoolNames) -> {"none", "dir", "file"}] :
                      Cardinality({ i \in 1..Len(PoolNames) : k[i] # "none" })
                          <= MaxChildren } }

\* The session starts in a directory of unknown content, hidden entries
\* shown or not.
InitList ==
    /\ \E c \in Configs : \E h \in BOOLEAN :
           fp = [NewModel(c, Home) EXCEPT !.ShowHidden = h]
    /\ selectedFile = NoPath
    /\ quitting = FALSE
    /\ inflight = SetToBag({Home})
    /\ status = "running"
    /\ msg = [type |-> "none", key |-> ""]
    /\ didSelect = Did(FALSE, NoPath)
    /\ listedDir = NoPath
    /\ sym = Idle
    /\ events = 0

\* The readDir command in flight found the children dirEntries.
ListChildren(dirEntries) ==
    \E p \in BagToSet(inflight) :
        Handle(ReadDirResult(dirEntries, fp.ShowHidden), p)

NextList == \E dirEntries \in Contents : ListChildren(dirEntries)

SpecList == InitList /\ [][NextList]_vars

\* ------------------------------------------------------------- claims

\* The last message Update received was key k.
Key(k) == msg.type = "KeyMsg" /\ msg.key = k

\* The highlighted entry, where there is one.
HasCursor == InRange(fp, fp.selected)
Highlighted == At(fp, fp.selected)

\* name ends with an allowed suffix, or no suffix is required.
NameAllowed(name) ==
    \/ Len(fp.AllowedTypes) = 0
    \/ \E i \in 1..Len(fp.AllowedTypes) :
          HasSuffix(Chars(name), Chars(fp.AllowedTypes[i]))

Stacks(m) == <<m.selectedStack, m.minStack, m.maxStack>>

\* C1: once a non-empty listing is loaded and the height is set, after any
\* sequence of MoveDown, MoveUp, PageDown, PageUp, GoToTop, GoToLast and
\* resize events the cursor lies in [min, max], and the window has exactly
\* height rows when the listing has at least height entries, and is
\* [0, len - 1] otherwise.
C1_ViewportContainment ==
    (status = "running" /\ Loaded /\ Len(fp.files) > 0 /\ fp.Height >= 1) =>
        /\ fp.min <= fp.selected
        /\ fp.selected <= fp.max
        /\ IF Len(fp.files) >= fp.Height
           THEN fp.max - fp.min + 1 = fp.Height
           ELSE fp.min = 0 /\ fp.max = Len(fp.files) - 1

\* C2: after N >= 1 descents followed by N ascents, every listing
\* delivered before the next key, the view (cursor, min, max) is the one
\* held before the first descent.
C2_StackSymmetry ==
    (sym.up /\ sym.n = 0 /\ Settled) => View(fp) = sym.base

\* C3: a listing that Update has just installed was read from the current
\* directory: a result read for another directory is discarded.
C3_StaleListingDiscarded ==
    msg.type = "readDirMsg" => listedDir = fp.CurrentDirectory

\* C4: with a non-empty AllowedTypes, enter on a highlighted regular file
\* whose name has none of the allowed suffixes changes nothing: no quit, no
\* selected path, same directory, cursor, view and stacks.
C4_DisabledFileNoChange ==
    [][ ( /\ PressEnter
          /\ Len(fp.AllowedTypes) > 0
          /\ HasCursor
          /\ Highlighted.kind = "file"
          /\ ~Highlighted.gone
          /\ ~NameAllowed(Highlighted.name) )
        => /\ status' = "running"
           /\ fp'.Path = NoPath
           /\ selectedFile' = selectedFile
           /\ fp'.CurrentDirectory = fp.CurrentDirectory
           /\ View(fp') = View(fp)
           /\ Stacks(fp') = Stacks(fp) ]_vars

\* C5: DidSelectFile reports a selection only for the enter key pressed on
\* a highlighted entry whose effective type is chooseable and, for a file,
\* whose name passes the extension filter; the path reported is the
\* current directory joined with that entry's name.
C5_SelectionLegality ==
    [][ (status = "running" /\ ~quitting' /\ didSelect'.ok)
        => /\ msg'.type = "KeyMsg"
           /\ msg'.key = "enter"
           /\ HasCursor
           /\ Chooseable(fp, EffectiveType(fp, Highlighted))
           /\ EffectiveType(fp, Highlighted) = "file" => NameAllowed(Highlighted.name)
           /\ didSelect'.path = Join(fp.CurrentDirectory, Highlighted.name) ]_vars

\* The highlighted entry is a symlink whose target resolves to a directory.
OnLinkToDir ==
    /\ HasCursor
    /\ Highlighted.kind = "symlink"
    /\ ~Highlighted.gone
    /\ Stat(EvalSymlinks(Join(fp.CurrentDirectory, Highlighted.name))) = "dir"

OnBrokenLink ==
    /\ HasCursor
    /\ Highlighted.kind = "symlink"
    /\ ~Highlighted.gone
    /\ Stat(EvalSymlinks(Join(fp.CurrentDirectory, Highlighted.name))) = "err"

\* The model with the highlighted entry a regular file of the same name.
AsRegularFile(m) == [m EXCEPT !.files[m.selected + 1].kind = "file"]

\* C7: enter on a highlighted symlink that cannot be resolved is handled
\* as enter on a regular file of the same name: the same command, the same
\* selected path, the same answer of DidSelectFile.
C7_BrokenSymlinkAsFile ==
    [][ (PressEnter /\ OnBrokenLink)
        => LET reg == Update(AsRegularFile(fp), KeyMsg("enter")) IN
           /\ (status' = "quit") = (reg.cmd = "quit")
           /\ fp'.Path = reg.m.Path
           /\ didSelect'.ok = DidSelectFile(reg.m, KeyMsg("enter")).ok ]_vars

\* C8: Back with empty stacks pops nothing and does not fail: the view
\* becomes (0, 0, Height - 1) whatever it was, and the stacks stay empty.
C8_BackOnEmptyStackResets ==
    [][ (PressBack /\ Len(fp.selectedStack) = 0)
        => /\ status' = "running"
           /\ View(fp') = <<0, 0, fp.Height - 1>>
           /\ Stacks(fp') = << << >>, << >>, << >> >> ]_vars

\* C8's case: Back was pressed at the initial directory with the cursor
\* moved off the first entry, and the view is the initial one again.
C8_Witness ==
    /\ Key("h")
    /\ fp.CurrentDirectory = Root
    /\ Len(fp.selectedStack) = 0
    /\ PathChars(fp.PathUI) = <<"/">>
    /\ events >= 2
    /\ View(fp) = <<0, 0, fp.Height - 1>>

\* C9 as claimed: Back at the session root (stacks empty, in the initial
\* directory) leaves the current directory and the listing unchanged.
C9_AscendAtRootIsNoOp ==
    [][ (PressBack /\ Len(fp.selectedStack) = 0 /\ fp.CurrentDirectory = Home)
        => /\ fp'.CurrentDirectory = fp.CurrentDirectory
           /\ fp'.files = fp.files ]_vars

\* C9 as amended: Back with empty stacks is not an error; it keeps the
\* stacks empty and the listing held, moves the current directory and the
\* displayed path to the parent directory (the root is its own parent),
\* and requests the parent's listing.
C9_AscendAtRootGoesToParent ==
    [][ (PressBack /\ Len(fp.selectedStack) = 0)
        => /\ status' = "running"
           /\ fp'.CurrentDirectory = Dir(fp.CurrentDirectory)
           /\ fp'.PathUI = Dir(fp.CurrentDirectory)
           /\ fp'.files = fp.files
           /\ Stacks(fp') = Stacks(fp)
           /\ inflight' = inflight (+) SetToBag({Dir(fp.CurrentDirectory)}) ]_vars

\* C9's case: after Back at the initial directory the picker shows the
\* listing of the directory above it.
C9_Witness ==
    /\ msg.type = "readDirMsg"
    /\ fp.CurrentDirectory = Dir(Home)
    /\ listedDir = Dir(Home)
    /\ Len(fp.files) > 0
    /\ Len(fp.selectedStack) = 0

\* C10: on a delivered listing with no entries, MoveDown, MoveUp,
\* PageDown, PageUp, GoToTop, GoToLast and Activate raise no error and
\* leave cursor, min, max, current directory, displayed path and stacks
\* unchanged.
C10_EmptyListingNoOps ==
    [][ ( /\ Len(fp.files) = 0
          /\ Settled
          /\ \/ PressDown \/ PressUp \/ PressPageDown \/ PressPageUp
             \/ PressGoToTop \/ PressGoToLast \/ PressOpen \/ PressEnter )
        => /\ status' = "running"
           /\ View(fp') = View(fp)
           /\ fp'.CurrentDirectory = fp.CurrentDirectory
           /\ fp'.PathUI = fp.PathUI
           /\ Stacks(fp') = Stacks(fp) ]_vars

\* C11: when the read of the current directory fails, the listing held
\* becomes empty instead of keeping the entries of the directory shown
\* before, and a Back pressed after the failure is still accepted.
C11_ListingFailureEmptiesView ==
    [][ /\ DeliverError => (status' = "running" /\ Len(fp'.files) = 0)
        /\ (PressBack /\ msg.type = "errorMsg")
              => /\ status' = "running"
                 /\ fp'.CurrentDirectory = Dir(fp.CurrentDirectory) ]_vars

\* C12: Down with the cursor on max and not on the last entry moves
\* cursor, min and max down by exactly one; Up with the cursor on min and
\* min > 0 moves all three up by one; a Down or Up whose new cursor lies
\* in the old [min, max] leaves min and max as they were.
C12_BoundaryMoveMinimalShift ==
    [][ /\ (PressDown /\ fp.selected = fp.max
                      /\ fp.selected < Len(fp.files) - 1)
              => /\ status' = "running"
                 /\ View(fp') = <<fp.selected + 1, fp.min + 1, fp.max + 1>>
        /\ (PressUp /\ fp.selected = fp.min /\ fp.min > 0)
              => /\ status' = "running"
                 /\ View(fp') = <<fp.selected - 1, fp.min - 1, fp.max - 1>>
        /\ ((PressDown \/ PressUp) /\ status' = "running"
                /\ fp.min <= fp'.selected /\ fp'.selected <= fp.max)
              => (fp'.min = fp.min /\ fp'.max = fp.max) ]_vars

\* C12's case: Down at the bottom row has scrolled the window by one.
C12_Witness ==
    /\ Loaded
    /\ Key("j")
    /\ status = "running"
    /\ fp.min = 1
    /\ fp.selected = fp.max
    /\ fp.max = fp.Height

\* Every directory comes before every other entry, and names increase
\* strictly inside each of the two groups.
Ordered(files) ==
    \A i, j \in 1..Len(files) :
        i < j => /\ IsDir(files[j]) => IsDir(files[i])
                 /\ IsDir(files[i]) = IsDir(files[j])
                       => StrLess(Chars(files[i].name), Chars(files[j].name))

\* files holds each child of dirEntries once, the hidden ones left out
\* unless they are shown.
Kept(dirEntries, files, showHidden) ==
    /\ { files[i] : i \in 1..Len(files) }
          = { dirEntries[i] : i \in { j \in 1..Len(dirEntries) :
                                        showHidden \/ ~IsHidden(dirEntries[j].name) } }
    /\ \A i, j \in 1..Len(files) : i # j => files[i] # files[j]

\* C13: whatever the children of the directory, the listing delivered
\* holds the directories first and then the other entries, each group by
\* strictly increasing name, with and without the hidden entries, and it
\* holds exactly the children that are to be shown.
C13_ListingOrder ==
    [][ \A dirEntries \in Contents :
            ListChildren(dirEntries)
              => /\ status' = "running"
                 /\ Ordered(fp'.files)
                 /\ Kept(dirEntries, fp'.files, fp.ShowHidden) ]_vars

\* C13's case: a directory named after a file was moved in front of it,
\* and a hidden entry was dropped from between them.
C13_Witness ==
    /\ msg.type = "readDirMsg"
    /\ ~fp.ShowHidden
    /\ Len(fp.files) = 3
    /\ fp.files[1].name = "tmp" /\ IsDir(fp.files[1])
    /\ fp.files[2].name = "about.md" /\ ~IsDir(fp.files[2])
    /\ fp.files[3].name = "readme.md"

\* C14: whenever the listing held is not empty, also between a descent
\* or an ascent and the delivery of the new listing, the cursor indexes
\* an entry of it: 0 <= selected < len(files).
C14_CursorInRange ==
    Len(fp.files) > 0 => (0 <= fp.selected /\ fp.selected < Len(fp.files))

\* C15: a quit key (q or ctrl+c) pressed in any running state, with a
\* listing loaded or still in flight, ends the session as cancelled: the
\* picker does not see the key, and no path is selected.
C15_QuitCancels ==
    [][ PressQuit => /\ quitting'
                     /\ status' = "quit"
                     /\ fp' = fp
                     /\ inflight' = inflight
                     /\ fp'.Path = NoPath
                     /\ selectedFile' = NoPath ]_vars

\* C15's case: the session was cancelled after a listing had been shown
\* and while another one was in flight.
C15_Witness ==
    /\ quitting
    /\ status = "quit"
    /\ Key("ctrl+c")
    /\ Loaded
    /\ BagCardinality(inflight) > 0
    /\ selectedFile = NoPath

\* The smaller of two integers.
Min(a, b) == IF a <= b THEN a ELSE b

\* The picker has just entered its current directory (at the start, by a
\* descent, or by Back with nothing to restore), and the only listing in
\* flight is the one of that directory.
JustEntered ==
    /\ \/ msg.type = "none"
       \/ Key("l") \/ Key("enter")
       \/ Key("h") /\ View(fp) = <<0, 0, fp.Height - 1>>
    /\ inflight = SetToBag({fp.CurrentDirectory})
    /\ listedDir # fp.CurrentDirectory

\* C16: when the listing of a directory just entered is delivered, the
\* view is cursor 0, min 0 and max the smaller of height - 1 and
\* len(listing) - 1.
C16_ResetOnListingArrival ==
    [][ (DeliverListing /\ JustEntered)
        => View(fp') = <<0, 0, Min(fp.Height - 1, Len(fp'.files) - 1)>> ]_vars

\* C17: a resize of a view with the cursor inside the window leaves
\* cursor and min as they were and sets max to min + h - 1, h being the
\* height after the resize, also when the view is scrolled (min > 0).
C17_ResizeKeepsScroll ==
    [][ (Resize /\ fp.Height >= 1
                /\ fp.min <= fp.selected /\ fp.selected <= fp.max)
        => /\ fp'.selected = fp.selected
           /\ fp'.min = fp.min
           /\ fp'.max = fp'.min + fp'.Height - 1 ]_vars

\* The larger of two integers.
Max(a, b) == IF a >= b THEN a ELSE b

\* C18: on a non-empty listing, a PageDown that would move max past the
\* last entry ends with max on the last entry and min = max - height + 1,
\* not below 0; a PageUp that would move min below 0 ends with min = 0
\* and max = height - 1, not past the last entry.
C18_PageClamping ==
    [][ /\ (PressPageDown /\ Len(fp.files) > 0 /\ fp.Height >= 1
                          /\ fp.max + fp.Height > Len(fp.files) - 1)
              => /\ fp'.max = Len(fp.files) - 1
                 /\ fp'.min = Max(0, fp'.max - fp.Height + 1)
        /\ (PressPageUp /\ Len(fp.files) > 0 /\ fp.Height >= 1
                        /\ fp.min - fp.Height < 0)
              => /\ fp'.min = 0
                 /\ fp'.max = Min(fp.Height - 1, Len(fp.files) - 1) ]_vars

\* C19: with directories selectable and a non-empty extension filter,
\* enter on a highlighted directory is reported as the selection of that
\* directory, whatever its name ends with.
C19_DirectoriesExemptFromFilter ==
    [][ ( /\ PressEnter
          /\ fp.DirAllowed
          /\ Len(fp.AllowedTypes) > 0
          /\ HasCursor
          /\ ~Highlighted.gone
          /\ EffectiveType(fp, Highlighted) = "dir" )
        => /\ didSelect'.ok
           /\ didSelect'.path = Join(fp.CurrentDirectory, Highlighted.name)
           /\ selectedFile' = Join(fp.CurrentDirectory, Highlighted.name) ]_vars

\* C20: after Down, Up, PageDown, PageUp, GoToTop or GoToLast on a
\* non-empty listing, the displayed path is the current directory when
\* the cursor is on a directory, join(current directory, name) when it
\* is on a regular file that may be selected, and in no case the path of
\* an entry other than the highlighted one.
C20_DisplayPathTracksCursor ==
    [][ ( /\ \/ PressDown \/ PressUp \/ PressPageDown \/ PressPageUp
             \/ PressGoToTop \/ PressGoToLast
          /\ Len(fp.files) > 0
          /\ fp.Height >= 1
          /\ status' = "running"
          /\ InRange(fp', fp'.selected)
          /\ ~At(fp', fp'.selected).gone )
        => LET f == At(fp', fp'.selected)
               here == Join(fp'.CurrentDirectory, f.name)
           IN  /\ f.kind = "dir" => fp'.PathUI = fp'.CurrentDirectory
               /\ (f.kind = "file" /\ fp.FileAllowed /\ NameAllowed(f.name))
                     => fp'.PathUI = here
               /\ fp'.PathUI \in {fp'.CurrentDirectory, here} ]_vars

\* C21: whenever Open (l or enter) descends or selects, the listing it
\* took the entry from was read from the current directory: no new
\* current directory and no selected path is formed from an entry of the
\* directory shown before while the new listing is in flight or failed.
C21_ListingBelongsToCurrentDirectory ==
    [][ ( /\ PressOpen \/ PressEnter
          /\ \/ fp'.CurrentDirectory # fp.CurrentDirectory
             \/ fp'.Path # fp.Path
             \/ didSelect'.ok )
        => listedDir = fp.CurrentDirectory ]_vars

====
